---- MODULE Spec2Model ----
(***************************************************************************)
(* Model of src/interactive_dashboard.py: a Streamlit script that is run   *)
(* from top to bottom on every interaction.  One run = one interaction     *)
(* cycle: load_data (cached), three sliders, validation of Num_Pairs       *)
(* against C(Num_Items, 2), row selection, grouping by algorithm, chart    *)
(* and raw-data table.                                                     *)
(*                                                                         *)
(* Units.  Noise levels are kept as integers: thousandths in the CSV file, *)
(* hundredths after load_data's round(2).  Accuracy is kept in hundredths. *)
(* Binary floating point itself is not modelled.                           *)
(***************************************************************************)
EXTENDS Integers, Sequences, FiniteSets, Bags, TLC

(***************************************************************************)
(* State.  The first group outlives a run; the second is what the last run *)
(* of the script computed and showed.                                      *)
(***************************************************************************)
VARIABLES
  file,               \* the CSV file on disk (the environment's)
  cache,              \* st.cache_data's entry for load_data
  lenient,            \* how the installed slider treats min_value > max_value
  w_noise,            \* widget state of the three sliders
  w_items,
  w_pairs,
  firstLoad,          \* history: what the first successful load returned
  reread,             \* history: read_csv ran again after a successful load
  staleHit,           \* history: a run was served from the cache although the
                      \*          file no longer yields that data
  outcome,            \* "none", "LoadError", "Crashed", "Invalid", "Empty", "Rendering"
  message,            \* the st.error / st.warning text shown, "" if none
  executed,           \* the steps of the script the last run entered
  df,
  noise_value,
  items_value,
  pairs_value,
  max_possible_pairs,
  filtered_df,
  algorithms,
  fig,                \* the traces of the chart passed to st.plotly_chart
  table               \* what the "Show Data" expander was given

vars ==
  << file, cache, lenient, w_noise, w_items, w_pairs, firstLoad, reread, staleHit,
     outcome, message, executed, df, noise_value, items_value, pairs_value,
     max_possible_pairs, filtered_df, algorithms, fig, table >>

(***************************************************************************)
(* Bounds of the model.                                                    *)
(***************************************************************************)
MaxRows == 2

(***************************************************************************)
(* Program constants.                                                      *)
(***************************************************************************)
noise_step == 1          \* 0.01, in hundredths
items_step == 100
pairs_step == 100

expected_columns ==
  {"Noise Level", "Num_Items", "Num_Pairs", "Algorithm", "Top-n", "Accuracy"}

(***************************************************************************)
(* The CSV file on disk: absent, or a header (set of column names) and     *)
(* rows.  A file row: noise in thousandths, the rest as written.           *)
(***************************************************************************)
NoiseRaw == {100, 112}
ItemsVals == {2, 102}
PairsVals == {1, 101}
Algs == {"A", "B"}
TopNs == {1, 5}

FileRow(n, i, p, a, t, c) ==
  [noise |-> n, items |-> i, pairs |-> p, alg |-> a, topn |-> t, acc |-> c]

\* The accuracy written in a generated row: distinct for distinct (alg, topn).
MeasuredAccuracy(a, t) == IF a = "A" THEN 75 + t ELSE 60 + 2 * t

RowDomain ==
  {FileRow(n, i, p, a, t, MeasuredAccuracy(a, t)) :
     n \in NoiseRaw, i \in ItemsVals, p \in PairsVals, a \in Algs, t \in TopNs}

\* The three rows of the worked example (noise 0.10, 500 items, 1000 pairs).
ExampleRows ==
  << FileRow(100, 500, 1000, "A", 5, 80),
     FileRow(100, 500, 1000, "A", 10, 90),
     FileRow(100, 500, 1000, "B", 5, 70) >>

\* Measurements out of order: algorithm B first, A descending, a tie on Top-n.
ShuffledRows ==
  << FileRow(100, 500, 1000, "B", 5, 70),
     FileRow(100, 500, 1000, "A", 10, 90),
     FileRow(100, 500, 1000, "A", 5, 80),
     FileRow(100, 500, 1000, "A", 10, 85) >>

\* Generated files: 1..MaxRows rows.  Algorithm labels are only compared for
\* equality, so the first row's label is fixed (the other files are renamings).
RowSeqs == {rows \in UNION {[1..n -> RowDomain] : n \in 1..MaxRows} : rows[1].alg = "A"}

MissingFile == [exists |-> FALSE, cols |-> {}, rows |-> <<>>]
CsvFile(cols, rows) == [exists |-> TRUE, cols |-> cols, rows |-> rows]

\* Files with all six columns (possibly one more) and at least one row.
GoodFiles ==
  {CsvFile(expected_columns, rows) : rows \in RowSeqs}
    \cup {CsvFile(expected_columns \cup {"Trials"}, ExampleRows),
          CsvFile(expected_columns, ShuffledRows)}

\* Files lacking one of the six columns.
BadSchemaFiles ==
  {CsvFile(expected_columns \ {col}, ExampleRows) : col \in expected_columns}

\* What the file may become while the process runs.
ReplacementFiles ==
  {MissingFile,
   CsvFile(expected_columns, <<FileRow(112, 102, 101, "B", 1, 90)>>)}


(***************************************************************************)
(* load_data: pd.read_csv, the schema check, the type coercions, wrapped   *)
(* in st.cache_data.  A call that ends in st.stop() stores nothing.        *)
(***************************************************************************)
NoCache == [loaded |-> FALSE, df |-> <<>>]

\* round(2) of a value given in thousandths (half to even, as numpy rounds).
Round2(x) ==
  LET q == x \div 10
      r == x % 10
  IN  IF r < 5 THEN q
      ELSE IF r > 5 THEN q + 1
      ELSE IF q % 2 = 0 THEN q ELSE q + 1

Coerce(row) == [row EXCEPT !.noise = Round2(row.noise)]

MissingColumns_none(cols) == {}

MissingColumns(cols) == expected_columns \ cols

load_data_uncached(c, f) ==
  IF ~f.exists
    THEN [ok |-> FALSE, df |-> <<>>, read |-> TRUE, cache |-> c,
          message |-> "file not found"]
  ELSE IF MissingColumns(f.cols) # {}
    THEN [ok |-> FALSE, df |-> <<>>, read |-> TRUE, cache |-> c,
          message |-> "missing expected column"]
  ELSE LET d == [k \in 1..Len(f.rows) |-> Coerce(f.rows[k])]
       IN  [ok |-> TRUE, df |-> d, read |-> TRUE,
            cache |-> [loaded |-> TRUE, df |-> d], message |-> ""]

load_data_always_reads(c, f) == load_data_uncached(c, f)

load_data(c, f) ==
  IF c.loaded
    THEN [ok |-> TRUE, df |-> c.df, read |-> FALSE, cache |-> c, message |-> ""]
    ELSE load_data_uncached(c, f)

(***************************************************************************)
(* Column minima and maxima, math.comb.                                    *)
(***************************************************************************)
Column(d, field) == {d[k][field] : k \in DOMAIN d}
ColMin(d, field) == CHOOSE x \in Column(d, field) : \A y \in Column(d, field) : x <= y
ColMax(d, field) == CHOOSE x \in Column(d, field) : \A y \in Column(d, field) : x >= y
Min2(a, b) == IF a <= b THEN a ELSE b
Max2(a, b) == IF a >= b THEN a ELSE b

RECURSIVE FallingProduct(_, _)
FallingProduct(n, k) == IF k = 0 THEN 1 ELSE n * FallingProduct(n - 1, k - 1)

RECURSIVE Factorial(_)
Factorial(k) == IF k = 0 THEN 1 ELSE k * Factorial(k - 1)

\* math.comb(n, k) for n, k >= 0.
comb(n, k) == IF k > n THEN 0 ELSE FallingProduct(n, k) \div Factorial(k)

(***************************************************************************)
(* st.sidebar.slider.  A widget keeps the value the user gave it as long   *)
(* as it is built with the same arguments; built with other arguments it   *)
(* is a new widget and starts from `value`.  The call sites always pass    *)
(* value = min_value.  When min_value > max_value the arguments are        *)
(* outside the widget's contract: a strict library raises, a lenient one   *)
(* widens the range to hold all three numbers.                             *)
(***************************************************************************)
NoWidget ==
  [set |-> FALSE, min_value |-> 0, max_value |-> 0, lo |-> 0, hi |-> 0, val |-> 0]

SliderValues(lo, hi, step) == {lo + k * step : k \in 0..((hi - lo) \div step)}

slider(min_value, max_value, value, stored, lenientLib) ==
  LET same == stored.set /\ stored.min_value = min_value
                         /\ stored.max_value = max_value
      v == IF same THEN stored.val ELSE value
  IN  IF min_value <= value /\ value <= max_value
        THEN [raised |-> FALSE,
              w |-> [set |-> TRUE, min_value |-> min_value, max_value |-> max_value,
                     lo |-> min_value, hi |-> max_value, val |-> v]]
      ELSE IF lenientLib
        THEN [raised |-> FALSE,
              w |-> [set |-> TRUE, min_value |-> min_value, max_value |-> max_value,
                     lo |-> Min2(Min2(min_value, max_value), value),
                     hi |-> Max2(Max2(min_value, max_value), value), val |-> v]]
      ELSE [raised |-> TRUE,
            w |-> [NoWidget EXCEPT !.min_value = min_value, !.max_value = max_value]]

(***************************************************************************)
(* Filtering, grouping and the figure.                                     *)
(***************************************************************************)
\* df[mask]: the rows whose mask entry is TRUE, in order.
BooleanIndex(d, mask) ==
  LET F[k \in 0..Len(d)] ==
        IF k = 0 THEN <<>>
        ELSE IF mask[k] THEN Append(F[k - 1], d[k]) ELSE F[k - 1]
  IN  F[Len(d)]

SelectionMask_nopairs(d, nv, iv, pv) ==
  [k \in 1..Len(d) |-> d[k].noise = nv /\ d[k].items = iv]

SelectionMask(d, nv, iv, pv) ==
  [k \in 1..Len(d) |-> d[k].noise = nv /\ d[k].items = iv /\ d[k].pairs = pv]

TopNMask(d, iv) == [k \in 1..Len(d) |-> d[k].topn <= iv]

\* Series.unique(): the distinct values in order of first appearance.
unique_reversed(s) ==
  LET F[k \in 0..Len(s)] ==
        IF k = 0 THEN <<>>
        ELSE IF \E j \in 1..Len(F[k - 1]) : F[k - 1][j] = s[k]
               THEN F[k - 1] ELSE <<s[k]>> \o F[k - 1]
  IN  F[Len(s)]

unique(s) ==
  LET F[k \in 0..Len(s)] ==
        IF k = 0 THEN <<>>
        ELSE IF \E j \in 1..Len(F[k - 1]) : F[k - 1][j] = s[k]
               THEN F[k - 1] ELSE Append(F[k - 1], s[k])
  IN  F[Len(s)]

\* sort_values('Top-n'): ascending; rows with equal Top-n keep their order.
sort_values_noop(d) == d

sort_values(d) ==
  LET Insert(sorted, r) ==
        LET k == Cardinality({j \in 1..Len(sorted) : sorted[j].topn <= r.topn})
        IN  SubSeq(sorted, 1, k) \o <<r>> \o SubSeq(sorted, k + 1, Len(sorted))
      F[k \in 0..Len(d)] == IF k = 0 THEN <<>> ELSE Insert(F[k - 1], d[k])
  IN  F[Len(d)]

PaletteSize == 24

\* One go.Scatter trace: the algorithm's rows, sorted, as x and y.
Trace(fdf, idx, alg) ==
  LET alg_data == sort_values(BooleanIndex(fdf, [k \in 1..Len(fdf) |-> fdf[k].alg = alg]))
  IN  [name |-> alg,
       x |-> [k \in 1..Len(alg_data) |-> alg_data[k].topn],
       y |-> [k \in 1..Len(alg_data) |-> alg_data[k].acc],
       color |-> idx % PaletteSize]

Figure(fdf, algs) ==
  [i \in 1..Len(algs) |-> Trace(fdf, i - 1, algs[i])]


(***************************************************************************)
(* One run of the script, top to bottom, as a function of what it reads:   *)
(* the cache, the file, the widget state and the library's behaviour.      *)
(***************************************************************************)
MaxPossiblePairs_stale(iv) == comb(items_value, 2)

MaxPossiblePairs(iv) == comb(iv, 2)

PairsSliderMax(pairs_max, mpp) == Min2(pairs_max, mpp)

InvalidSelection_inverted(pv, mpp) == pv < mpp

InvalidSelection(pv, mpp) == pv > mpp

Blank ==
  [cache |-> NoCache, read |-> FALSE, outcome |-> "none", message |-> "",
   executed |-> {}, df |-> <<>>,
   w_noise |-> NoWidget, w_items |-> NoWidget, w_pairs |-> NoWidget,
   noise_value |-> 0, items_value |-> 0, pairs_value |-> 0,
   max_possible_pairs |-> 0,
   filtered_df |-> <<>>, algorithms |-> <<>>, fig |-> <<>>, table |-> <<>>]

\* Lines 94-154: row selection, the empty check, the Top-n filter, the chart.
SelectAndRender(r, d, nv, iv, pv) ==
  LET selected == BooleanIndex(d, SelectionMask(d, nv, iv, pv))
  IN  IF selected = <<>>
        THEN [r EXCEPT !.outcome = "Empty",
                       !.message = "No data available for the selected parameters.",
                       !.executed = @ \cup {"row_select"}]
        ELSE LET fdf == BooleanIndex(selected, TopNMask(selected, iv))
                 algs == unique([k \in 1..Len(fdf) |-> fdf[k].alg])
             IN  [r EXCEPT !.outcome = "Rendering",
                           !.executed = @ \cup {"row_select", "group",
                                                "plotly_chart", "show_data"},
                           !.filtered_df = fdf,
                           !.algorithms = algs,
                           !.fig = Figure(fdf, algs),
                           !.table = fdf]

\* Lines 89-92, then the rest: the slider's result, the validation.
Validate(r1, d, nv, iv, mpp, ps) ==
  IF ps.raised
    THEN [r1 EXCEPT !.outcome = "Crashed",
                    !.message = "slider raised an exception"]
  ELSE IF InvalidSelection(ps.w.val, mpp)
    THEN [r1 EXCEPT !.pairs_value = ps.w.val,
                    !.executed = @ \cup {"validate"},
                    !.outcome = "Invalid",
                    !.message = "Number of Pairs cannot exceed C(n, 2)"]
  ELSE SelectAndRender([r1 EXCEPT !.pairs_value = ps.w.val,
                                  !.executed = @ \cup {"validate"}],
                       d, nv, iv, ps.w.val)

\* Lines 73-87: C(items_value, 2) and the Num_Pairs slider.
PairsSlider(r0, d, ns, is, mpp, wp, lib) ==
  \* ps: the slider call of lines 80-87
  LET ps == slider(ColMin(d, "pairs"), PairsSliderMax(ColMax(d, "pairs"), mpp),
                   ColMin(d, "pairs"), wp, lib)
  IN  Validate([r0 EXCEPT !.df = d, !.w_noise = ns.w, !.w_items = is.w,
                          !.w_pairs = ps.w,
                          !.noise_value = ns.w.val, !.items_value = is.w.val,
                          !.max_possible_pairs = mpp,
                          !.executed = @ \cup {"sliders"}],
               d, ns.w.val, is.w.val, mpp, ps)

\* Lines 44-74: the Noise Level and Num_Items sliders.
Sliders(r0, d, wn, wi, wp, lib) ==
  LET ns == slider(ColMin(d, "noise"), ColMax(d, "noise"), ColMin(d, "noise"), wn, lib)
      is == slider(ColMin(d, "items"), ColMax(d, "items"), ColMin(d, "items"), wi, lib)
  IN  PairsSlider(r0, d, ns, is, MaxPossiblePairs(is.w.val), wp, lib)

\* Line 42 onwards, given what load_data returned (or that it stopped the run).
AfterLoad(ld, wn, wi, wp, lib) ==
  IF ~ld.ok
    THEN [Blank EXCEPT !.cache = ld.cache, !.read = ld.read,
                       !.executed = {"load_data"},
                       !.outcome = "LoadError", !.message = ld.message]
    ELSE Sliders([Blank EXCEPT !.cache = ld.cache, !.read = ld.read,
                               !.executed = {"load_data"}],
                 ld.df, wn, wi, wp, lib)

Script(c, f, wn, wi, wp, lib) == AfterLoad(load_data(c, f), wn, wi, wp, lib)

(***************************************************************************)
(* Initial state and actions.                                              *)
(***************************************************************************)
\* A file for which some Num_Items value makes min(Num_Pairs) exceed the
\* slider's upper bound.  For every other file the two library behaviours
\* coincide, and only one is kept.
IllFormable(f) ==
  /\ f.exists
  /\ expected_columns \subseteq f.cols
  /\ ColMin(f.rows, "pairs") > comb(ColMin(f.rows, "items"), 2)

Init ==
  /\ file \in GoodFiles \cup BadSchemaFiles \cup {MissingFile}
  /\ cache = NoCache
  /\ lenient \in IF IllFormable(file) THEN BOOLEAN ELSE {FALSE}
  /\ w_noise = NoWidget /\ w_items = NoWidget /\ w_pairs = NoWidget
  /\ firstLoad = NoCache /\ reread = FALSE /\ staleHit = FALSE
  /\ outcome = "none" /\ message = "" /\ executed = {}
  /\ df = <<>>
  /\ noise_value = 0 /\ items_value = 0 /\ pairs_value = 0
  /\ max_possible_pairs = 0
  /\ filtered_df = <<>> /\ algorithms = <<>> /\ fig = <<>> /\ table = <<>>

\* The script runs with the given widget state.
Run(wn, wi, wp) ==
  \E r \in {Script(cache, file, wn, wi, wp, lenient)} :
      /\ cache' = r.cache
      /\ firstLoad' = IF ~firstLoad.loaded /\ r.cache.loaded THEN r.cache ELSE firstLoad
      /\ reread' = (reread \/ (firstLoad.loaded /\ r.read))
      /\ staleHit' = (staleHit \/ (r.outcome # "LoadError" /\ ~r.read
                                   /\ load_data_uncached(NoCache, file).df # r.df))
      /\ w_noise' = r.w_noise /\ w_items' = r.w_items /\ w_pairs' = r.w_pairs
      /\ outcome' = r.outcome /\ message' = r.message /\ executed' = r.executed
      /\ df' = r.df
      /\ noise_value' = r.noise_value
      /\ items_value' = r.items_value
      /\ pairs_value' = r.pairs_value
      /\ max_possible_pairs' = r.max_possible_pairs
      /\ filtered_df' = r.filtered_df /\ algorithms' = r.algorithms
      /\ fig' = r.fig /\ table' = r.table
      /\ UNCHANGED << file, lenient >>

\* The page is opened, or rerun, with the widgets as they are.
Rerun == Run(w_noise, w_items, w_pairs)

\* The user moves a slider to another value of its range: the script reruns.
SetNoise ==
  /\ w_noise.set
  /\ \E v \in SliderValues(w_noise.lo, w_noise.hi, noise_step) \ {w_noise.val} :
        Run([w_noise EXCEPT !.val = v], w_items, w_pairs)

SetItems ==
  /\ w_items.set
  /\ \E v \in SliderValues(w_items.lo, w_items.hi, items_step) \ {w_items.val} :
        Run(w_noise, [w_items EXCEPT !.val = v], w_pairs)

SetPairs ==
  /\ w_pairs.set
  /\ \E v \in SliderValues(w_pairs.lo, w_pairs.hi, pairs_step) \ {w_pairs.val} :
        Run(w_noise, w_items, [w_pairs EXCEPT !.val = v])

\* The environment removes or replaces the file.
FileChange ==
  /\ \E f \in ReplacementFiles \ {file} : file' = f
  /\ UNCHANGED << cache, lenient, w_noise, w_items, w_pairs, firstLoad, reread,
                  staleHit, outcome, message, executed, df, noise_value,
                  items_value, pairs_value, max_possible_pairs, filtered_df,
                  algorithms, fig, table >>

Next == Rerun \/ SetNoise \/ SetItems \/ SetPairs \/ FileChange

Spec == Init /\ [][Next]_vars


(***************************************************************************)
(* Vocabulary of the claims, stated on the last run's selection without    *)
(* the script's own operators.                                             *)
(***************************************************************************)
\* C(n, 2) as the specification defines it.
Choose2(n) == IF n < 2 THEN 0 ELSE (n * (n - 1)) \div 2

Matches(r) ==
  r.noise = noise_value /\ r.items = items_value /\ r.pairs = pairs_value

InView(r) == Matches(r) /\ r.topn <= items_value

\* The Filtered View of the data model for the current selection.
ExactView == SelectSeq(df, InView)

IsMinOf(m, field) ==
  (\E k \in DOMAIN df : df[k][field] = m) /\ (\A k \in DOMAIN df : df[k][field] >= m)

IsMaxOf(m, field) ==
  (\E k \in DOMAIN df : df[k][field] = m) /\ (\A k \in DOMAIN df : df[k][field] <= m)

Downstream == {"row_select", "group", "plotly_chart", "show_data"}

(***************************************************************************)
(* C1.  Whenever the value the Num_Pairs control returned is strictly      *)
(* greater than C(num_items, 2), the run ends in Invalid with a message,   *)
(* and row selection, grouping, the chart and the table are not entered.   *)
(***************************************************************************)
C1_InvalidStopsBeforeSelection ==
  (cache.loaded /\ "validate" \in executed /\ pairs_value > Choose2(items_value))
    => /\ outcome = "Invalid"
       /\ message # ""
       /\ executed \cap Downstream = {}
       /\ filtered_df = <<>> /\ fig = <<>> /\ table = <<>>

C1_Witness ==
  /\ outcome = "Invalid"
  /\ "validate" \in executed
  /\ pairs_value > Choose2(items_value)

(***************************************************************************)
(* C2.  A validated selection whose Filtered View (exact match and         *)
(* top_n <= num_items) is empty ends in Empty, and no chart is rendered.   *)
(***************************************************************************)
C2_EmptyViewGivesWarning ==
  ("row_select" \in executed /\ ExactView = <<>>)
    => (outcome = "Empty" /\ "plotly_chart" \notin executed)

(***************************************************************************)
(* C3.  The view that is plotted and shown in the raw-data table is        *)
(* exactly the rows of the dataset that match the selected tuple and have  *)
(* top_n <= num_items, in the dataset's order.                             *)
(***************************************************************************)
C3_FilteredViewExact ==
  outcome = "Rendering" => (filtered_df = ExactView /\ table = ExactView)

\* A rendered view that left out a matching row because its top_n > num_items.
C3_Witness ==
  /\ outcome = "Rendering"
  /\ filtered_df # <<>>
  /\ \E k \in DOMAIN df : Matches(df[k]) /\ df[k].topn > items_value

(***************************************************************************)
(* C4.  In every rendered chart each series' x values (top_n) are          *)
(* non-decreasing, whatever the order of the rows in the dataset.          *)
(***************************************************************************)
C4_SeriesSorted ==
  outcome = "Rendering" =>
    \A i \in DOMAIN fig :
      \A j, k \in DOMAIN fig[i].x : j < k => fig[i].x[j] <= fig[i].x[k]

\* A rendered chart whose view holds two rows of one algorithm in descending
\* top_n order.
C4_Witness ==
  /\ outcome = "Rendering"
  /\ \E j, k \in DOMAIN filtered_df :
        /\ j < k
        /\ filtered_df[j].alg = filtered_df[k].alg
        /\ filtered_df[j].topn > filtered_df[k].topn

(***************************************************************************)
(* C5.  For a non-empty Filtered View the chart has one series per         *)
(* distinct algorithm of the view, in order of first occurrence, and each  *)
(* series' points are exactly the (top_n, accuracy) pairs of that          *)
(* algorithm's rows (as a multiset).                                       *)
(***************************************************************************)
C5_OneSeriesPerAlgorithm ==
  (outcome = "Rendering" /\ ExactView # <<>>) =>
    LET V == ExactView
        First(a) == CHOOSE k \in DOMAIN V :
                      V[k].alg = a /\ \A j \in 1..(k - 1) : V[j].alg # a
        Points(i) == {<<fig[i].x[k], fig[i].y[k]>> : k \in DOMAIN fig[i].x}
        RowPoints(a) == {<<V[k].topn, V[k].acc>> : k \in {j \in DOMAIN V : V[j].alg = a}}
    IN  /\ {fig[i].name : i \in DOMAIN fig} = {V[k].alg : k \in DOMAIN V}
        /\ \A i, j \in DOMAIN fig :
              i < j => (fig[i].name # fig[j].name
                        /\ First(fig[i].name) < First(fig[j].name))
        /\ \A i \in DOMAIN fig :
              /\ DOMAIN fig[i].x = DOMAIN fig[i].y
              /\ Points(i) = RowPoints(fig[i].name)
              /\ \A p \in Points(i) :
                    Cardinality({k \in DOMAIN fig[i].x : <<fig[i].x[k], fig[i].y[k]>> = p})
                      = Cardinality({k \in DOMAIN V :
                                       V[k].alg = fig[i].name
                                       /\ <<V[k].topn, V[k].acc>> = p})

\* The worked example: series A = [(5, 0.80), (10, 0.90)], series B = [(5, 0.70)].
C5_Witness ==
  /\ outcome = "Rendering"
  /\ noise_value = 10 /\ items_value = 500 /\ pairs_value = 1000
  /\ Len(fig) = 2
  /\ fig[1].name = "A" /\ fig[1].x = <<5, 10>> /\ fig[1].y = <<80, 90>>
  /\ fig[2].name = "B" /\ fig[2].x = <<5>> /\ fig[2].y = <<70>>

(***************************************************************************)
(* C6.  In every run that builds the controls, the Num_Pairs control is    *)
(* given the column minimum as lower bound and                             *)
(* min(column maximum, C(n, 2)) as upper bound, n being the num_items      *)
(* value selected in that same run.                                        *)
(***************************************************************************)
C6_PairsBoundFresh ==
  "sliders" \in executed =>
    /\ max_possible_pairs = Choose2(items_value)
    /\ IsMinOf(w_pairs.min_value, "pairs")
    /\ \E m \in {df[k].pairs : k \in DOMAIN df} :
          /\ IsMaxOf(m, "pairs")
          /\ w_pairs.max_value = IF m <= Choose2(items_value)
                                   THEN m ELSE Choose2(items_value)

\* num_items was moved away from its initial value, and the bound is not the
\* one the initial value would give.
C6_Witness ==
  /\ "sliders" \in executed
  /\ ~IsMinOf(items_value, "items")
  /\ \E n \in {df[k].items : k \in DOMAIN df} :
        IsMinOf(n, "items") /\ w_pairs.max_value > Choose2(n)

(***************************************************************************)
(* C7.  A run that has to read the file and finds it absent, or lacking    *)
(* one of the six columns, ends in the load error with a message; no       *)
(* control, validation, row selection, chart or table is produced.         *)
(***************************************************************************)
C7_LoadFailureIsTerminal ==
  [][ (file' = file /\ ~cache.loaded
       /\ (~file.exists \/ ~(expected_columns \subseteq file.cols)))
      => /\ outcome' = "LoadError"
         /\ message' # ""
         /\ executed' = {"load_data"}
         /\ ~w_noise'.set /\ ~w_items'.set /\ ~w_pairs'.set
         /\ filtered_df' = <<>> /\ fig' = <<>> /\ table' = <<>> ]_vars

\* A run stopped by a file that exists and lacks a column.
C7_Witness ==
  /\ outcome = "LoadError"
  /\ file.exists
  /\ ~(expected_columns \subseteq file.cols)
  /\ executed = {"load_data"}

(***************************************************************************)
(* C8.  After the first successful load the file is not read again, every  *)
(* later run works on data equal to the first load's, and the cached       *)
(* dataset never changes.                                                  *)
(***************************************************************************)
C8_CachedAfterFirstLoad ==
  firstLoad.loaded =>
    /\ ~reread
    /\ cache = firstLoad
    /\ df = firstLoad.df

\* A run was served from the cache while the file no longer yields that data.
C8_Witness ==
  /\ staleHit
  /\ cache.loaded
  /\ outcome \in {"Empty", "Rendering", "Invalid"}

C10_PairsRangeWellFormed ==
  "sliders" \in executed =>
    /\ w_pairs.min_value <= w_pairs.max_value
    /\ outcome # "Crashed"

====
